---------------------------- MODULE Spec2Model ----------------------------
(***************************************************************************)
(* Credential cipher of the socials-api services                           *)
(* (src/helpers/cryptoHelpers.js) and the process that loads it.           *)
(*                                                                         *)
(* Strings are sequences of Unicode code points, byte strings sequences of *)
(* 0..255, base64 text sequences of ASCII codes.  The conversions of the   *)
(* Node runtime that the helper calls (UTF-8, base64, String.split, CBC    *)
(* chaining, PKCS#7 padding) are computed as the runtime computes them.    *)
(* The AES-256 block transform itself is represented by a keyed            *)
(* permutation of 16-byte blocks (BlockEncrypt / BlockDecrypt): what the   *)
(* properties below use of AES is that, for each key, it is a permutation  *)
(* of the blocks and that different keys give different permutations.      *)
(***************************************************************************)
EXTENDS Integers, Sequences, FiniteSets, TLC

\* ------------------------------------------------------------------------
\* Program constants
\* ------------------------------------------------------------------------

\* ENCRYPTION_KEY.length !== 32 (the startup check counts UTF-16 code units)
KeyChars == 32

\* 'aes-256-cbc': createCipheriv wants a key of 32 bytes
AesKeyBytes == 32

\* 'aes-256-cbc': the cipher's block, and the IV createDecipheriv accepts
BlockSize == 16

\* crypto.randomBytes(16)
IvBytes == 16

\* ------------------------------------------------------------------------
\* Bounds of the model
\* ------------------------------------------------------------------------

\* how many tokens encrypt may have issued before the model stops encrypting
MaxIssued == 2

\* ------------------------------------------------------------------------
\* Bytes
\* ------------------------------------------------------------------------

RECURSIVE BitXor(_, _, _)
BitXor(a, b, n) ==
  IF n = 0 THEN 0
  ELSE ((a + b) % 2) + 2 * BitXor(a \div 2, b \div 2, n - 1)

Xor(a, b) == BitXor(a, b, 8)

XorBlock(x, y) == [i \in 1..BlockSize |-> Xor(x[i], y[i])]

Range(s) == {s[i] : i \in 1..Len(s)}

Drop(s, n) == SubSeq(s, n + 1, Len(s))

Take(s, n) == SubSeq(s, 1, n)

\* ------------------------------------------------------------------------
\* UTF-8 (Buffer.from(str), the 'utf8' input and output encodings)
\* ------------------------------------------------------------------------

\* String.prototype.length: UTF-16 code units
RECURSIVE JsLength(_)
JsLength(s) ==
  IF s = <<>> THEN 0
  ELSE (IF Head(s) > 65535 THEN 2 ELSE 1) + JsLength(Tail(s))

Utf8Char(cp) ==
  IF cp < 128 THEN <<cp>>
  ELSE IF cp < 2048 THEN <<192 + cp \div 64, 128 + (cp % 64)>>
  ELSE IF cp >= 55296 /\ cp <= 57343 THEN <<239, 191, 189>>
  ELSE IF cp < 65536
    THEN <<224 + cp \div 4096, 128 + ((cp \div 64) % 64), 128 + (cp % 64)>>
  ELSE <<240 + cp \div 262144, 128 + ((cp \div 4096) % 64),
         128 + ((cp \div 64) % 64), 128 + (cp % 64)>>

RECURSIVE Utf8Encode(_)
Utf8Encode(s) ==
  IF s = <<>> THEN <<>> ELSE Utf8Char(Head(s)) \o Utf8Encode(Tail(s))

ByteIn(b, i, lo, hi) == i <= Len(b) /\ b[i] >= lo /\ b[i] <= hi

\* one decoding step at position i: the code point and the bytes consumed;
\* an ill-formed sequence gives U+FFFD for its maximal well-formed prefix
Utf8Step(b, i) ==
  LET x == b[i]
      bad(n) == [cp |-> 65533, n |-> n]
  IN IF x < 128 THEN [cp |-> x, n |-> 1]
     ELSE IF x >= 194 /\ x <= 223 THEN
       IF ByteIn(b, i + 1, 128, 191)
         THEN [cp |-> (x - 192) * 64 + (b[i + 1] - 128), n |-> 2]
         ELSE bad(1)
     ELSE IF x >= 224 /\ x <= 239 THEN
       LET lo == IF x = 224 THEN 160 ELSE 128
           hi == IF x = 237 THEN 159 ELSE 191
       IN IF ~ByteIn(b, i + 1, lo, hi) THEN bad(1)
          ELSE IF ~ByteIn(b, i + 2, 128, 191) THEN bad(2)
          ELSE [cp |-> (x - 224) * 4096 + (b[i + 1] - 128) * 64
                       + (b[i + 2] - 128),
                n |-> 3]
     ELSE IF x >= 240 /\ x <= 244 THEN
       LET lo == IF x = 240 THEN 144 ELSE 128
           hi == IF x = 244 THEN 143 ELSE 191
       IN IF ~ByteIn(b, i + 1, lo, hi) THEN bad(1)
          ELSE IF ~ByteIn(b, i + 2, 128, 191) THEN bad(2)
          ELSE IF ~ByteIn(b, i + 3, 128, 191) THEN bad(3)
          ELSE [cp |-> (x - 240) * 262144 + (b[i + 1] - 128) * 4096
                       + (b[i + 2] - 128) * 64 + (b[i + 3] - 128),
                n |-> 4]
     ELSE bad(1)

RECURSIVE Utf8DecodeFrom(_, _)
Utf8DecodeFrom(b, i) ==
  IF i > Len(b) THEN <<>>
  ELSE LET r == Utf8Step(b, i) IN <<r.cp>> \o Utf8DecodeFrom(b, i + r.n)

Utf8Decode(b) == Utf8DecodeFrom(b, 1)

\* the length a lead byte announces; 0 ASCII, -1 continuation, -2 invalid
Utf8Need(x) ==
  IF x < 128 THEN 0
  ELSE IF x \div 32 = 6 THEN 2
  ELSE IF x \div 16 = 14 THEN 3
  ELSE IF x \div 8 = 30 THEN 4
  ELSE IF x \div 64 = 2 THEN -1
  ELSE -2

\* how many bytes at the end of a chunk start a character the chunk does
\* not finish: the streaming decoder keeps them for the next chunk
Utf8Incomplete(b) ==
  LET n == Len(b) IN
  IF n = 0 THEN 0
  ELSE IF Utf8Need(b[n]) >= 0 THEN (IF Utf8Need(b[n]) > 1 THEN 1 ELSE 0)
  ELSE IF n < 2 \/ Utf8Need(b[n]) = -2 THEN 0
  ELSE IF Utf8Need(b[n - 1]) >= 0
    THEN (IF Utf8Need(b[n - 1]) > 2 THEN 2 ELSE 0)
  ELSE IF n < 3 \/ Utf8Need(b[n - 1]) = -2 THEN 0
  ELSE IF Utf8Need(b[n - 2]) >= 0
    THEN (IF Utf8Need(b[n - 2]) > 3 THEN 3 ELSE 0)
  ELSE 0

\* decipher.update(.., 'utf8') followed by decipher.final('utf8'): the text
\* of the first chunk without its unfinished character, then the rest
Utf8Stream(first, rest) ==
  LET keep == Utf8Incomplete(first)
      cut  == Len(first) - keep
  IN Utf8Decode(Take(first, cut)) \o Utf8Decode(Drop(first, cut) \o rest)

\* ------------------------------------------------------------------------
\* base64 (the 'base64' output encoding, Buffer.from(str, 'base64'))
\* ------------------------------------------------------------------------

B64Char(v) ==
  IF v < 26 THEN 65 + v
  ELSE IF v < 52 THEN 97 + (v - 26)
  ELSE IF v < 62 THEN 48 + (v - 52)
  ELSE IF v = 62 THEN 43
  ELSE 47

\* the text of the whole 3-byte groups of b: four characters a group
Base64Groups(b) ==
  [k \in 1..(4 * (Len(b) \div 3)) |->
     LET g == 3 * ((k - 1) \div 4)
         r == (k - 1) % 4
     IN B64Char(IF r = 0 THEN b[g + 1] \div 4
                ELSE IF r = 1 THEN (b[g + 1] % 4) * 16 + b[g + 2] \div 16
                ELSE IF r = 2 THEN (b[g + 2] % 16) * 4 + b[g + 3] \div 64
                ELSE b[g + 3] % 64)]

\* the text of the last one or two bytes, padded with '='
Base64Tail(b) ==
  IF Len(b) = 0 THEN <<>>
  ELSE IF Len(b) = 1
    THEN <<B64Char(b[1] \div 4), B64Char((b[1] % 4) * 16), 61, 61>>
  ELSE <<B64Char(b[1] \div 4),
         B64Char((b[1] % 4) * 16 + b[2] \div 16),
         B64Char((b[2] % 16) * 4), 61>>

Base64Encode(b) ==
  LET k == Len(b) - (Len(b) % 3)
  IN Base64Groups(Take(b, k)) \o Base64Tail(Drop(b, k))

\* (mutant) each chunk encoded on its own, padding and all
Base64Concat(first, rest) == Base64Encode(first) \o Base64Encode(rest)

\* cipher.update(.., 'base64') followed by cipher.final('base64'): the
\* first chunk's whole groups, then its leftover bytes with the last chunk
Base64Stream(first, rest) ==
  LET k == Len(first) - (Len(first) % 3)
  IN Base64Groups(Take(first, k)) \o Base64Encode(Drop(first, k) \o rest)

\* the value of a base64 character ('-' and '_' are accepted too), -1 for
\* any other character
B64Val(c) ==
  IF c >= 65 /\ c <= 90 THEN c - 65
  ELSE IF c >= 97 /\ c <= 122 THEN c - 71
  ELSE IF c >= 48 /\ c <= 57 THEN c + 4
  ELSE IF c = 43 \/ c = 45 THEN 62
  ELSE IF c = 47 \/ c = 95 THEN 63
  ELSE -1

IsB64Char(c) == B64Val(c) >= 0

\* (mutant) a decoder that gives nothing for text with a character that
\* is neither of the alphabet nor '='
B64SextetsStrict(s) ==
  IF \E i \in 1..Len(s) : ~IsB64Char(s[i]) /\ s[i] # 61 THEN <<>>
  ELSE LET kept == SelectSeq(s, IsB64Char)
       IN [i \in 1..Len(kept) |-> B64Val(kept[i])]

\* the decoder skips characters outside the alphabet and stops at '='
B64Sextets(s) ==
  LET stops == {i \in 1..Len(s) : s[i] = 61}
      upto  == IF stops = {} THEN Len(s)
               ELSE (CHOOSE i \in stops : \A j \in stops : i <= j) - 1
      kept  == SelectSeq(Take(s, upto), IsB64Char)
  IN [i \in 1..Len(kept) |-> B64Val(kept[i])]

\* four characters give three bytes, a last group of three gives two and
\* one of two gives one
B64Bytes(v) ==
  LET rem == Len(v) % 4
      n   == 3 * (Len(v) \div 4)
               + (IF rem = 2 THEN 1 ELSE IF rem = 3 THEN 2 ELSE 0)
  IN [k \in 1..n |->
        LET g == 4 * ((k - 1) \div 3)
            r == (k - 1) % 3
        IN IF r = 0 THEN v[g + 1] * 4 + v[g + 2] \div 16
           ELSE IF r = 1 THEN (v[g + 2] % 16) * 16 + v[g + 3] \div 4
           ELSE (v[g + 3] % 4) * 64 + v[g + 4]]

Base64Decode(s) == B64Bytes(B64Sextets(s))

\* ------------------------------------------------------------------------
\* String.prototype.split(sep)
\* ------------------------------------------------------------------------

\* the pieces of s between the occurrences of sep, all of them
Split(s, sep) ==
  LET at == {i \in 1..Len(s) : s[i] = sep}
      \* the position of the k-th separator; 0 and Len(s) + 1 at the ends
      cut(k) == IF k = 0 THEN 0
                ELSE IF k > Cardinality(at) THEN Len(s) + 1
                ELSE CHOOSE i \in at : Cardinality({j \in at : j < i}) = k - 1
  IN [k \in 1..(Cardinality(at) + 1) |->
        SubSeq(s, cut(k - 1) + 1, cut(k) - 1)]

\* ------------------------------------------------------------------------
\* aes-256-cbc
\* ------------------------------------------------------------------------

\* what a call returns, or the error it throws
Ok(v) == [ok |-> TRUE, val |-> v, err |-> "none"]

Throw(e) == [ok |-> FALSE, val |-> <<>>, err |-> e]

\* (mutant) a zero-filled buffer of the key's size
KeyBufferZeroed(key) == [i \in 1..Len(Utf8Encode(key)) |-> 0]

\* Buffer.from(ENCRYPTION_KEY): the bytes that key the cipher
KeyBuffer(key) == Utf8Encode(key)

\* The block transform.  AES-256 is represented by a keyed permutation of
\* the 16-byte blocks with the properties the helper relies on: a byte
\* substitution that is not affine, key material mixed in before and after,
\* and an inverse in which every plaintext byte depends on every
\* ciphertext byte.
SBox(v) == (v * (2 * v + 1)) % 256

SBoxInverse == [v \in 0..255 |-> CHOOSE y \in 0..255 : SBox(y) = v]

Reverse(s) == [i \in 1..Len(s) |-> s[Len(s) + 1 - i]]

\* the running sums of the first n bytes of y
RECURSIVE PrefixSums(_, _)
PrefixSums(y, n) ==
  IF n = 0 THEN <<>>
  ELSE LET p == PrefixSums(y, n - 1)
       IN Append(p, ((IF n = 1 THEN 0 ELSE p[n - 1]) + y[n]) % 256)

\* the mixing layer of decryption: running sums, forwards then backwards
MixInverse(y) ==
  Reverse(PrefixSums(Reverse(PrefixSums(y, BlockSize)), BlockSize))

\* the mixing layer of encryption: the differences that MixInverse sums up
MixForward(w) ==
  [i \in 1..BlockSize |->
     LET next == IF i = BlockSize THEN 0 ELSE w[i + 1]
     IN IF i = 1 THEN (256 + w[1] - next) % 256
        ELSE (512 + 2 * w[i] - w[i - 1] - next) % 256]

\* the block transform under the key bytes kb: a permutation of the blocks
BlockEncrypt(kb, x) ==
  LET s == [i \in 1..BlockSize |-> SBox((x[i] + kb[i] + 7 * i) % 256)]
      m == MixForward(s)
  IN [i \in 1..BlockSize |-> (m[i] + kb[i + BlockSize]) % 256]

\* its inverse
BlockDecrypt(kb, y) ==
  LET u == [i \in 1..BlockSize |-> (256 + y[i] - kb[i + BlockSize]) % 256]
      s == MixInverse(u)
  IN [i \in 1..BlockSize |->
        (1024 + SBoxInverse[s[i]] - kb[i] - 7 * i) % 256]

\* PKCS#7: 1 to 16 bytes, each holding their number
Pkcs7Pad(b) ==
  LET n == BlockSize - (Len(b) % BlockSize)
  IN b \o [i \in 1..n |-> n]

\* (mutant) only the last byte is looked at
ValidPadLastByte(block) ==
  block[BlockSize] >= 1 /\ block[BlockSize] <= BlockSize

\* (mutant) only the first and the last byte of the padding are looked at
ValidPadEnds(block) ==
  LET n == block[BlockSize]
  IN n >= 1 /\ n <= BlockSize /\ block[BlockSize - n + 1] = n

\* the padding check of decipher.final()
ValidPad(block) ==
  LET n == block[BlockSize]
  IN /\ n >= 1
     /\ n <= BlockSize
     /\ \A i \in (BlockSize - n + 1)..BlockSize : block[i] = n

\* CBC over whole blocks: each block is xored with the previous ciphertext
\* block (the IV for the first) before the block transform
RECURSIVE CbcEncrypt(_, _, _)
CbcEncrypt(kb, prev, p) ==
  IF Len(p) < BlockSize THEN <<>>
  ELSE LET c == BlockEncrypt(kb, XorBlock(Take(p, BlockSize), prev))
       IN c \o CbcEncrypt(kb, c, Drop(p, BlockSize))

RECURSIVE CbcDecrypt(_, _, _)
CbcDecrypt(kb, prev, c) ==
  IF Len(c) < BlockSize THEN <<>>
  ELSE LET blk == Take(c, BlockSize)
       IN XorBlock(BlockDecrypt(kb, blk), prev)
            \o CbcDecrypt(kb, blk, Drop(c, BlockSize))

\* cipher.update(plaintext, 'utf8', ..): the whole blocks of the input
CipherUpdate(kb, iv, pt) ==
  CbcEncrypt(kb, iv, Take(pt, Len(pt) - (Len(pt) % BlockSize)))

\* cipher.final(..): the padded last block, chained to what update gave
CipherFinal(kb, iv, pt) ==
  LET whole == Len(pt) - (Len(pt) % BlockSize)
      done  == CipherUpdate(kb, iv, pt)
      prev  == IF whole = 0 THEN iv ELSE Drop(done, whole - BlockSize)
  IN CbcEncrypt(kb, prev, Pkcs7Pad(Drop(pt, whole)))

\* (mutant) the two segments joined without the ':'
PayloadNoSeparator(ivBase64, encrypted) == ivBase64 \o encrypted

\* const payload = ivBase64 + ':' + encrypted
Payload(ivBase64, encrypted) == ivBase64 \o <<58>> \o encrypted

\* (mutant) the IV is a constant instead of the bytes drawn for the call
EncryptConstantIv(key, iv, plaintext) ==
  LET kb   == KeyBuffer(key)
      pt   == Utf8Encode(plaintext)
      zero == [i \in 1..IvBytes |-> 0]
  IN IF Len(kb) # AesKeyBytes THEN Throw("Invalid key length")
     ELSE Ok(Payload(Base64Encode(zero),
                     Base64Stream(CipherUpdate(kb, zero, pt),
                                  CipherFinal(kb, zero, pt))))

\* encrypt(plaintext) with the IV that crypto.randomBytes(16) returned
Encrypt(key, iv, plaintext) ==
  LET kb == KeyBuffer(key)
      pt == Utf8Encode(plaintext)
  IN IF Len(iv) # BlockSize THEN Throw("Invalid initialization vector")
     ELSE IF Len(kb) # AesKeyBytes THEN Throw("Invalid key length")
     ELSE Ok(Payload(Base64Encode(iv),
                     Base64Stream(CipherUpdate(kb, iv, pt),
                                  CipherFinal(kb, iv, pt))))

\* (mutant) the first and the last piece instead of the first two
SplitPayloadLast(payload) ==
  LET parts == Split(payload, 58)
  IN [ivBase64 |-> parts[1],
      defined |-> Len(parts) >= 2,
      encryptedData |-> IF Len(parts) >= 2 THEN parts[Len(parts)] ELSE <<>>]

\* const [ivBase64, encryptedData] = payload.split(':'): the first two
\* pieces; encryptedData is undefined when there is one piece only
SplitPayload(payload) ==
  LET parts == Split(payload, 58)
  IN [ivBase64 |-> parts[1],
      defined |-> Len(parts) >= 2,
      encryptedData |-> IF Len(parts) >= 2 THEN parts[2] ELSE <<>>]

\* decrypt(payload)
Decrypt(key, payload) ==
  LET parts == SplitPayload(payload)
      iv    == Base64Decode(parts.ivBase64)
      kb    == KeyBuffer(key)
  IN IF Len(iv) # BlockSize THEN Throw("Invalid initialization vector")
     ELSE IF Len(kb) # AesKeyBytes THEN Throw("Invalid key length")
     ELSE IF ~parts.defined THEN Throw("ERR_INVALID_ARG_TYPE")
     ELSE
       LET ct    == Base64Decode(parts.encryptedData)
           plain == CbcDecrypt(kb, iv, ct)
           held  == Len(ct) - BlockSize
       IN IF Len(ct) = 0 \/ Len(ct) % BlockSize # 0
            THEN Throw("wrong final block length")
          ELSE IF ~ValidPad(Drop(plain, held)) THEN Throw("bad decrypt")
          ELSE Ok(Utf8Stream(Take(plain, held),
                             SubSeq(plain, held + 1,
                                    Len(plain) - plain[Len(plain)])))

\* ------------------------------------------------------------------------
\* Inputs
\* ------------------------------------------------------------------------

Repeat(c, n) == [i \in 1..n |-> c]

\* process.env.ENCRYPTION_KEY: unset, or a string
Unset == [set |-> FALSE, val |-> <<>>]

Env(s) == [set |-> TRUE, val |-> s]

\* two keys of 32 ASCII characters
KeyA == Repeat(97, 32)

KeyB == Repeat(98, 32)

\* 32 characters, 33 bytes: 31 letters and U+00E9
KeyWide == Repeat(97, 31) \o <<233>>

\* 31 characters, 32 bytes: 30 letters and U+00E9
KeyNarrow == Repeat(97, 30) \o <<233>>

KeyShort == <<115, 104, 111, 114, 116>>

EnvValues ==
  {Unset, Env(<<>>), Env(KeyShort), Env(KeyA), Env(KeyB), Env(KeyWide),
   Env(KeyNarrow)}

\* the plaintexts handed to encrypt: the empty string, U+00E9 alone, and
\* 14 letters followed by U+20AC (17 bytes: the character's three bytes lie
\* across the boundary of the first block)
Plaintexts ==
  {<<>>, <<233>>, [i \in 1..14 |-> 96 + i] \o <<8364>>}

\* the values crypto.randomBytes(16) returns in the model
RandomIvs ==
  {[i \in 1..IvBytes |-> (17 * i) % 256],
   [i \in 1..IvBytes |-> IF i = IvBytes THEN 3 ELSE (3 * i) % 256]}

\* ------------------------------------------------------------------------
\* Tokens handed to decrypt
\* ------------------------------------------------------------------------

IvSegment(token) == Split(token, 58)[1]

DataSegment(token) == Split(token, 58)[2]

FlipByte(b, pos) == [b EXCEPT ![pos] = Xor(@, 1)]

\* the positions at which the model changes a ciphertext of n bytes
DataPositions(n) == {1, BlockSize - 1, n - 1}

IvPositions == {1, IvBytes - 1, IvBytes}

\* what the model hands to decrypt, made from a token encrypt returned
TokenInputs(token) ==
  LET ivSeg   == IvSegment(token)
      dataSeg == DataSegment(token)
      iv      == Base64Decode(ivSeg)
      data    == Base64Decode(dataSeg)
  IN {[kind |-> "issued", at |-> 0, token |-> token]}
     \cup {[kind |-> "tamperData", at |-> pos,
            token |-> Payload(ivSeg, Base64Encode(FlipByte(data, pos)))] :
             pos \in DataPositions(Len(data))}
     \cup {[kind |-> "tamperIv", at |-> pos,
            token |-> Payload(Base64Encode(FlipByte(iv, pos)), dataSeg)] :
             pos \in IvPositions}
     \cup {\* the two segments without the ':' between them
           [kind |-> "noSeparator", at |-> 0, token |-> ivSeg \o dataSeg],
           \* the ciphertext segment alone
           [kind |-> "noSeparator", at |-> 1, token |-> dataSeg],
           \* '!' inside the IV segment and '*' in front of the ciphertext
           [kind |-> "notBase64", at |-> 0,
            token |-> <<Head(ivSeg), 33>> \o Tail(ivSeg)
                        \o <<58, 42>> \o dataSeg],
           \* a third segment after a second ':'
           [kind |-> "extraSegment", at |-> 0,
            token |-> token \o <<58, 65, 65, 65, 65>>]}

\* ------------------------------------------------------------------------
\* The services: what a request carries and what a handler keeps
\* ------------------------------------------------------------------------

\* the services of the repository that have POST /api/credentials:
\* src/index.js ("encrypted"), src/apps/twitter-api/src/index.js ("plain")
\* and src/apps/twitter-api/index.js ("json", which keeps db.json)
Variants == {"encrypted", "plain", "json"}

\* upload.fields([{ name: 'images', maxCount: 4 }, { name: 'video',
\* maxCount: 1 }])
MaxImages == 4

MaxVideos == 1

\* the connections on which the model sends requests
Connections == {"c1", "c2"}

\* the ids a new row can get (uuid)
Ids == <<"id1", "id2">>

\* the :accountId of the tweet requests: the ids and one that is never given
RequestedIds == Range(Ids) \cup {"id9"}

\* a value of a JSON body or a form field: a string or undefined
Undefined == [set |-> FALSE, val |-> <<>>]

Str(s) == [set |-> TRUE, val |-> s]

\* !x
FalsyWhenAbsent(x) == ~x.set

Falsy(x) == ~x.set \/ x.val = <<>>

\* the four secrets of the body of POST /api/credentials, in the order in
\* which the handlers name them, the columns that hold them and the fields
\* of the TwitterApi client that get them
SecretFields == <<"apiKey", "apiSecret", "accessToken", "accessSecret">>

Columns ==
  <<"twitter_api_key", "twitter_api_secret", "twitter_access_token",
    "twitter_access_secret">>

ClientFields == <<"appKey", "appSecret", "accessToken", "accessSecret">>

\* { ownerUserId: 'u', apiKey: 'K', apiSecret: 'S', accessToken: 'T',
\*   accessSecret: 'A' }
BodyA ==
  [ownerUserId |-> Str(<<117>>), apiKey |-> Str(<<75>>),
   apiSecret |-> Str(<<83>>), accessToken |-> Str(<<84>>),
   accessSecret |-> Str(<<65>>)]

\* { ownerUserId: 'v', apiKey: 'k', apiSecret: 's', accessToken: 't',
\*   accessSecret: U+00E9 }
BodyB ==
  [ownerUserId |-> Str(<<118>>), apiKey |-> Str(<<107>>),
   apiSecret |-> Str(<<115>>), accessToken |-> Str(<<116>>),
   accessSecret |-> Str(<<233>>)]

\* the bodies sent to POST /api/credentials: the first client sends BodyA,
\* as it is, without accessSecret or with '' for apiKey; the second client
\* sends BodyB
CredentialBodies(r) ==
  IF r = "c1"
    THEN {BodyA, [BodyA EXCEPT !.accessSecret = Undefined],
          [BodyA EXCEPT !.apiKey = Str(<<>>)]}
    ELSE {BodyB}

\* the secrets the model submits
Secrets ==
  {b[SecretFields[f]].val : b \in {BodyA, BodyB}, f \in DOMAIN SecretFields}

\* what crypto.randomBytes(16) returns to the four encrypt calls of one
\* request: the two values in turn, in one order for the requests of the
\* first client and in the other for those of the second
IvDraws(r) ==
  {d \in [DOMAIN SecretFields -> RandomIvs] :
     /\ d[1] = d[3] /\ d[2] = d[4] /\ d[1] # d[2]
     /\ (r = "c1") <=> (d[1][1] < d[2][1])}

\* 'hi'
Hello == Str(<<104, 105>>)

\* a tweet request sent as multipart/form-data: the :accountId, the text
\* field, and how many files the form has in its images and video fields
TweetRequest(id, text, images, video) ==
  [accountId |-> id, text |-> text, images |-> images, video |-> video,
   multipart |-> TRUE]

\* a tweet request that is not multipart/form-data (a JSON body, or no
\* body): multer passes it on as it is, and req.files is undefined
PlainTweetRequest(id, text) ==
  [accountId |-> id, text |-> text, images |-> 0, video |-> 0,
   multipart |-> FALSE]

\* the tweet requests of the first client, which asks for the first account
\* and for one that does not exist, and of the second, which asks for the
\* second account
TweetRequests(r) ==
  IF r = "c1"
    THEN {TweetRequest("id1", Undefined, 1, 0),
          TweetRequest("id1", Str(<<>>), 0, MaxVideos),
          PlainTweetRequest("id1", Undefined),
          PlainTweetRequest("id1", Hello),
          TweetRequest("id1", Hello, 0, 0),
          TweetRequest("id9", Hello, 0, 0),
          TweetRequest("id1", Hello, MaxImages, 0),
          TweetRequest("id1", Hello, 0, MaxVideos),
          TweetRequest("id1", Hello, 1, MaxVideos)}
    ELSE {TweetRequest("id2", Hello, 0, 0)}

\* the temporary files multer wrote for a request (file.path)
ImageFile(n) == [field |-> "images", n |-> n]

VideoFile == [field |-> "video", n |-> 1]

UploadedFiles(in) ==
  {ImageFile(n) : n \in 1..in.images}
    \cup (IF in.video > 0 THEN {VideoFile} ELSE {})

\* what a handler did, in order: its calls of the cipher, of the store, of
\* the Twitter client, of console and fs, and the responses it sent
Did(what, arg) == [do |-> what, arg |-> arg]

\* res.status(status).json({ error })
Respond(status, error) == Did("respond", [status |-> status, error |-> error])

\* console.error(line, error) / console.log(line, value): the line, the
\* message of what is printed and the strings it holds
LogLine(line, message, holds) ==
  Did("log", [line |-> line, message |-> message, holds |-> holds])

\* a connection without a request, and the local variables of a handler
Idle ==
  [op |-> "idle", pc |-> "idle", input |-> <<>>, ivs |-> <<>>,
   row |-> <<>>, client |-> <<>>, mediaIds |-> <<>>, files |-> {},
   trace |-> <<>>]

\* ------------------------------------------------------------------------
\* State
\* ------------------------------------------------------------------------

VARIABLES
  phase,           \* "down", "up" (module loaded), "failed" (load threw)
  ENCRYPTION_KEY,  \* const ENCRYPTION_KEY of the loaded module
  issued,          \* the tokens encrypt has returned, with their inputs
  last,            \* the most recent call and what it returned
  variant,         \* which of the repository's services the process runs
  store,           \* the rows of twitter_accounts (db.json in the JSON variant)
  requests         \* the HTTP requests in flight, one per connection

vars == <<phase, ENCRYPTION_KEY, issued, last, variant, store, requests>>

\* what the calls of the cipher leave alone
service == <<variant, store, requests>>

NoEntry == [plain |-> <<>>, iv |-> <<>>, key |-> <<>>, token |-> <<>>]

NoCall ==
  [op |-> "none", kind |-> "none", at |-> 0, src |-> NoEntry,
   token |-> <<>>, repeat |-> FALSE, res |-> Throw("none")]

Init ==
  /\ phase = "down"
  /\ ENCRYPTION_KEY = Unset
  /\ issued = {}
  /\ last = NoCall
  /\ variant = "encrypted"
  /\ store = <<>>
  /\ requests = [r \in Connections |-> Idle]

\* the check at the top of cryptoHelpers.js
KeyAccepted(k) == ~(~k.set \/ k.val = <<>> \/ JsLength(k.val) # KeyChars)

\* require('./helpers/cryptoHelpers') in a new process
Load(e) ==
  /\ phase = "down"
  /\ variant = "encrypted"
  /\ ENCRYPTION_KEY' = e
  /\ phase' = IF KeyAccepted(e) THEN "up" ELSE "failed"
  /\ last' = [NoCall EXCEPT !.op = "load"]
  /\ UNCHANGED <<issued, service>>

\* the process ends; what encrypt returned earlier stays with its callers
Exit ==
  /\ phase \in {"up", "failed"}
  /\ last.op \in {"none", "load"}
  /\ phase' = "down"
  /\ ENCRYPTION_KEY' = Unset
  /\ last' = NoCall
  /\ requests' = [r \in Connections |-> Idle]
  /\ UNCHANGED <<issued, variant, store>>

\* a call of encrypt(plaintext); iv is what crypto.randomBytes(16) returns
EncryptCall(plaintext, iv) ==
  /\ phase = "up"
  /\ last.op \in {"none", "load"}
  /\ Cardinality(issued) < MaxIssued
  /\ LET res   == Encrypt(ENCRYPTION_KEY.val, iv, plaintext)
         entry == [plain |-> plaintext, iv |-> iv,
                   key |-> ENCRYPTION_KEY.val, token |-> res.val]
     IN /\ issued' = IF res.ok THEN issued \cup {entry} ELSE issued
        /\ last' = [op |-> "encrypt", kind |-> "none", at |-> 0,
                    src |-> entry, token |-> res.val,
                    repeat |-> \E e \in issued :
                                 e.key = entry.key /\ e.iv = iv,
                    res |-> res]
  /\ UNCHANGED <<phase, ENCRYPTION_KEY, service>>

\* a call of decrypt(payload), payload made from an issued token
DecryptCall(e, in) ==
  /\ phase = "up"
  /\ last.op \in {"none", "load"}
  /\ last' = [op |-> "decrypt", kind |-> in.kind, at |-> in.at, src |-> e,
              token |-> in.token, repeat |-> FALSE,
              res |-> Decrypt(ENCRYPTION_KEY.val, in.token)]
  /\ UNCHANGED <<phase, ENCRYPTION_KEY, issued, service>>

\* the caller has used what the call returned (or caught what it threw)
Return ==
  /\ last.op \in {"encrypt", "decrypt"}
  /\ last' = NoCall
  /\ UNCHANGED <<phase, ENCRYPTION_KEY, issued, service>>

Next ==
  \/ \E e \in EnvValues : Load(e)
  \/ Exit
  \/ Return
  \/ \E s \in Plaintexts, iv \in RandomIvs : EncryptCall(s, iv)
  \/ \E e \in issued : \E in \in TokenInputs(e.token) : DecryptCall(e, in)

Spec == Init /\ [][Next]_vars

\* ------------------------------------------------------------------------
\* Properties
\* ------------------------------------------------------------------------

Decrypted(kind) == last.op = "decrypt" /\ last.kind = kind

\* the token came from encrypt under the key that is loaded now
SameKey == last.src.key = ENCRYPTION_KEY.val

KeyBytes == KeyBuffer(ENCRYPTION_KEY.val)

Colons(token) == {i \in 1..Len(token) : token[i] = 58}

\* C1: decrypt(encrypt(s)) returns exactly s, for every string s (the empty
\* one and those with multi-byte characters too), under one valid key.
RoundTrip ==
  (Decrypted("issued") /\ SameKey) => last.res = Ok(last.src.plain)

\* a 17-byte plaintext with a 3-byte character came back from decrypt
RoundTripWitness ==
  /\ Decrypted("issued")
  /\ SameKey
  /\ last.res.ok
  /\ 8364 \in Range(last.src.plain)

\* C2, as stated: no encrypt call uses an IV that an earlier call under the
\* same key used.
IvNeverReused ==
  (last.op = "encrypt" /\ last.res.ok) => ~last.repeat

\* C2, amended: every encrypt call writes the 16 bytes it drew into its
\* token; two encryptions of the same s under the same key give different
\* tokens exactly when they drew different IVs, and each token decrypts to s.
IvPerCall ==
  (last.op = "encrypt" /\ last.res.ok) =>
    /\ Len(last.src.iv) = IvBytes
    /\ \A e \in issued :
         (e.key = last.src.key /\ e.plain = last.src.plain) =>
           /\ (e.token # last.token) <=> (e.iv # last.src.iv)
           /\ Decrypt(e.key, e.token) = Ok(e.plain)

\* the same s was encrypted twice, with two IVs
IvPerCallWitness ==
  /\ last.op = "encrypt"
  /\ last.res.ok
  /\ \E e \in issued :
       /\ e.key = last.src.key
       /\ e.plain = last.src.plain
       /\ e.iv # last.src.iv
       /\ e.token # last.token

\* C3: loading the module fails exactly when the key is absent or is not
\* 32 bytes long.
StartupValidation ==
  (phase # "down") =>
    ((phase = "failed") <=>
       (~ENCRYPTION_KEY.set \/ Len(KeyBytes) # AesKeyBytes))

\* C4: once the module has loaded, the key every call uses is 32 bytes
\* long, and no call fails because of the key's length.
KeyValidAfterStartup ==
  (phase = "up") =>
    /\ Len(KeyBytes) = AesKeyBytes
    /\ last.res.err # "Invalid key length"

\* C5, as stated: decrypt of a token without ':' or with characters that
\* are not base64 in its segments fails.
FormatValidation ==
  (Decrypted("noSeparator") \/ Decrypted("notBase64")) => ~last.res.ok

\* C5, amended: decrypt of a token without ':' always fails (under a usable
\* key: the IV is refused, or the missing ciphertext is); characters outside
\* the base64 alphabet are skipped, so a token of encrypt with such
\* characters put into its segments decrypts like the token itself.
MissingSeparatorFails ==
  /\ Decrypted("noSeparator") =>
       /\ ~last.res.ok
       /\ (Len(KeyBytes) = AesKeyBytes) =>
            last.res.err \in {"Invalid initialization vector",
                              "ERR_INVALID_ARG_TYPE"}
  /\ (Decrypted("notBase64") /\ SameKey) => last.res = Ok(last.src.plain)

\* the two segments of a token were handed over without the ':': the IV
\* decodes, and the ciphertext is missing
MissingSeparatorWitness ==
  /\ Decrypted("noSeparator")
  /\ last.at = 0
  /\ Len(KeyBytes) = AesKeyBytes
  /\ last.res.err = "ERR_INVALID_ARG_TYPE"

\* C6, as stated: a token with more than one ':' is rejected.
ExtraSegmentRejected ==
  Decrypted("extraSegment") => ~last.res.ok

\* C6, amended: decrypt splits the token at every ':' and uses the first
\* two pieces only; what follows a second ':' is ignored, so the token is
\* decrypted as if it ended there.
ExtraSegmentIgnored ==
  (Decrypted("extraSegment") /\ SameKey) =>
    /\ Len(Split(last.token, 58)) = 3
    /\ last.res = Ok(last.src.plain)

ExtraSegmentWitness ==
  /\ Decrypted("extraSegment")
  /\ SameKey
  /\ last.res.ok
  /\ last.src.plain # <<>>

\* C7, as stated: decrypt under a key other than the one the token was
\* encrypted under fails.
WrongKeyFails ==
  (Decrypted("issued") /\ ~SameKey) => ~last.res.ok

\* C7, amended: decrypt under another key never returns s; it fails when
\* the last block as decrypted under that key has no valid padding (or the
\* key is unusable), and returns another string when it happens to have.
WrongKeyNeverOriginal ==
  (Decrypted("issued") /\ ~SameKey) =>
    /\ last.res # Ok(last.src.plain)
    /\ ~last.res.ok => last.res.err \in {"bad decrypt", "Invalid key length"}

\* both outcomes under a usable other key
WrongKeyWitness ==
  /\ Decrypted("issued")
  /\ ~SameKey
  /\ Len(KeyBytes) = AesKeyBytes
  /\ last.res.ok

IvMismatchFails ==
  (Decrypted("tamperIv") /\ SameKey) => ~last.res.ok

\* C9, amended: with another IV decrypt never returns s (s free of U+FFFD).
\* It does not always fail: the IV reaches the first block only, in the
\* byte at the same offset, so decrypt fails (on the padding) exactly when
\* the plaintext is shorter than a block and the changed byte faces its
\* padding, and returns another string otherwise.
IvMismatchNeverOriginal ==
  (Decrypted("tamperIv") /\ SameKey /\ 65533 \notin Range(last.src.plain))
    =>
    LET n == Len(Utf8Encode(last.src.plain))
    IN /\ last.res # Ok(last.src.plain)
       /\ ~last.res.ok => last.res.err = "bad decrypt"
       /\ last.res.ok <=> (n >= BlockSize \/ last.at <= n)

IvMismatchWitness ==
  /\ Decrypted("tamperIv")
  /\ SameKey
  /\ last.res.ok

\* C10: a token of encrypt is base64(iv), ':', base64(ciphertext): it has
\* exactly one ':', and what precedes it decodes to the 16 bytes of the IV.
WireFormat ==
  (last.op = "encrypt" /\ last.res.ok) =>
    /\ Cardinality(Colons(last.token)) = 1
    /\ IvSegment(last.token) = Base64Encode(last.src.iv)
    /\ Len(Base64Decode(IvSegment(last.token))) = IvBytes
    /\ Base64Decode(IvSegment(last.token)) = last.src.iv
    /\ LET data == Base64Decode(DataSegment(last.token))
       IN /\ Len(data) > 0
          /\ Len(data) % BlockSize = 0
          /\ Base64Encode(data) = DataSegment(last.token)

\* a token whose ciphertext went through both update() and final()
WireFormatWitness ==
  /\ last.op = "encrypt"
  /\ last.res.ok
  /\ Len(Utf8Encode(last.src.plain)) > BlockSize

\* ------------------------------------------------------------------------
\* The services: handlers
\* ------------------------------------------------------------------------

Request(r) == requests[r]

CipherRekeyed ==
  /\ ENCRYPTION_KEY' = Env(KeyB)
  /\ UNCHANGED <<phase, issued, last>>

\* no handler assigns to the module of the cipher: ENCRYPTION_KEY is a const
\* of cryptoHelpers.js, which exports encrypt and decrypt only
CipherKept == UNCHANGED <<phase, ENCRYPTION_KEY, issued, last>>

DrawnShared(r, ivs) ==
  IF \E o \in Connections \ {r} : requests[o].ivs # <<>>
    THEN requests[CHOOSE o \in Connections \ {r} : requests[o].ivs # <<>>].ivs
    ELSE ivs

\* const iv = crypto.randomBytes(16) is a local of each encrypt call: the
\* calls of a request use what was drawn for them
Drawn(r, ivs) == ivs

Upserted(row) ==
  IF \E i \in DOMAIN store : store[i].owner_user_id = row.owner_user_id
    THEN [store EXCEPT ![CHOOSE i \in DOMAIN store :
                           store[i].owner_user_id = row.owner_user_id] = row]
    ELSE Append(store, row)

\* .insert([row]) / dbData.twitter_accounts.push(newAccount): a new row,
\* after those there are
Inserted(row) == Append(store, row)

NoFailure(results) == 0

\* the first call, in order, that threw; 0 when none did
FirstFailure(results) ==
  IF \A i \in DOMAIN results : results[i].ok
    THEN 0
    ELSE CHOOSE i \in DOMAIN results :
           ~results[i].ok /\ \A j \in 1..(i - 1) : results[j].ok

\* the calls made up to the one that threw (all of them when none did)
CallsMade(results) ==
  IF FirstFailure(results) = 0 THEN Len(results) ELSE FirstFailure(results)

CipherCalls(what, results) ==
  [i \in 1..CallsMade(results) |->
     Did(what, [field |-> SecretFields[i], ok |-> results[i].ok])]

\* encrypt(apiKey), encrypt(apiSecret), encrypt(accessToken),
\* encrypt(accessSecret)
EncryptAll(key, body, ivs) ==
  [f \in DOMAIN SecretFields |->
     Encrypt(key, ivs[f], body[SecretFields[f]].val)]

\* the keys with which the module loads, and encrypt(apiKey) ..
\* encrypt(accessSecret) for each of them and each request of the model
LoadedKeys == {e.val : e \in {e \in EnvValues : KeyAccepted(e)}}

AllBodies == UNION {CredentialBodies(r) : r \in Connections}

AllIvDraws == UNION {IvDraws(r) : r \in Connections}

Encrypted ==
  [key \in LoadedKeys |->
     [body \in AllBodies |->
        [ivs \in AllIvDraws |-> EncryptAll(key, body, ivs)]]]

NewRowKeepsApiKey(body, tokens) ==
  [owner_user_id |-> body.ownerUserId.val,
   twitter_api_key |-> body.apiKey.val,
   twitter_api_secret |-> tokens[2],
   twitter_access_token |-> tokens[3],
   twitter_access_secret |-> tokens[4]]

\* the row src/index.js hands to insert: the owner id and the four tokens
NewRow(body, tokens) ==
  [owner_user_id |-> body.ownerUserId.val,
   twitter_api_key |-> tokens[1],
   twitter_api_secret |-> tokens[2],
   twitter_access_token |-> tokens[3],
   twitter_access_secret |-> tokens[4]]

\* the row the two other services write: uuidv4() and the body as it came
PlainRow(body, id) ==
  [id |-> id,
   owner_user_id |-> body.ownerUserId.val,
   twitter_api_key |-> body.apiKey.val,
   twitter_api_secret |-> body.apiSecret.val,
   twitter_access_token |-> body.accessToken.val,
   twitter_access_secret |-> body.accessSecret.val]

\* if (!ownerUserId || !apiKey || !apiSecret || !accessToken || !accessSecret)
BodyIncomplete(body) ==
  \/ Falsy(body.ownerUserId)
  \/ \E f \in DOMAIN SecretFields : Falsy(body[SecretFields[f]])

StoredIds == {store[i].id : i \in DOMAIN store}

\* the id the database gives a row inserted without one
GeneratedId == Ids[Len(store) + 1]

\* a request has arrived on connection r and its handler has run up to its
\* first await or to its response
Arrived(r, op, input, next) ==
  requests' = [requests EXCEPT ![r] =
                 next @@ [Idle EXCEPT !.op = op, !.input = input]]

\* the handler of connection r has run from one await to the next
Resumed(r, next) ==
  requests' = [requests EXCEPT ![r] = next @@ Request(r)]

Serving(r, op, pc) ==
  /\ phase = "up"
  /\ Request(r).op = op
  /\ Request(r).pc = pc

\* POST /api/credentials of src/index.js, up to await supabase...insert
CredentialsEncrypted(r, body, ivs) ==
  /\ variant = "encrypted"
  /\ Serving(r, "idle", "idle")
  /\ LET results == Encrypted[ENCRYPTION_KEY.val][body][Drawn(r, ivs)]
         failed  == FirstFailure(results)
     IN Arrived(r, "credentials", body,
          IF BodyIncomplete(body)
            THEN [pc |-> "done",
                  trace |-> <<Respond(400, "All credentials are required.")>>]
          ELSE IF failed # 0
            THEN [pc |-> "done",
                  trace |-> CipherCalls("encrypt", results)
                    \o <<LogLine("Error storing credentials:",
                                 results[failed].err, <<>>),
                         Respond(500, "Failed to store credentials")>>]
          ELSE [pc |-> "insert",
                ivs |-> ivs,
                row |-> NewRow(body, [f \in DOMAIN results |-> results[f].val]),
                trace |-> CipherCalls("encrypt", results)
                  \o <<Did("insert",
                           NewRow(body, [f \in DOMAIN results |->
                                           results[f].val]))>>])
  /\ CipherKept
  /\ UNCHANGED <<variant, store>>

\* POST /api/credentials of src/apps/twitter-api/src/index.js, up to await
\* supabase...insert; id is what uuidv4() returns
CredentialsPlain(r, body, id) ==
  /\ variant = "plain"
  /\ Serving(r, "idle", "idle")
  /\ Arrived(r, "credentials", body,
       IF BodyIncomplete(body)
         THEN [pc |-> "done",
               trace |-> <<Respond(400, "All credentials are required.")>>]
         ELSE [pc |-> "insert",
               row |-> PlainRow(body, id),
               trace |-> <<Did("insert", PlainRow(body, id))>>])
  /\ CipherKept
  /\ UNCHANGED <<variant, store>>

\* the insert of either service has come back: with the row, which has an
\* id no other row has, or with an error
CredentialsInserted(r, ok) ==
  /\ Serving(r, "credentials", "insert")
  /\ LET row == IF variant = "encrypted"
                  THEN [id |-> GeneratedId] @@ Request(r).row
                  ELSE Request(r).row
     IN IF ok
          THEN /\ Len(store) < Len(Ids)
               /\ row.id \notin StoredIds
               /\ store' = Inserted(row)
               /\ Resumed(r, [pc |-> "done",
                              trace |-> Append(Request(r).trace,
                                               Respond(200, ""))])
          ELSE /\ store' = store
               /\ Resumed(r,
                    [pc |-> "done",
                     trace |-> Request(r).trace
                       \o <<LogLine("Supabase insert error:", "store error",
                                    <<>>),
                            Respond(500,
                              "Failed to store credentials in Supabase")>>])
  /\ CipherKept
  /\ UNCHANGED variant

ReadDBCached == <<>>

\* readDB(): what JSON.parse(fs.readFileSync(dbPath, 'utf-8')) returns, the
\* accounts db.json holds when the handler reads it
ReadDB == store

\* POST /api/credentials of src/apps/twitter-api/index.js, which has no
\* await: readDB (which throws when db.json cannot be read), push, writeDB
CredentialsJson(r, body, id, readable) ==
  /\ variant = "json"
  /\ Serving(r, "idle", "idle")
  /\ Len(store) < Len(Ids)
  /\ IF BodyIncomplete(body)
       THEN /\ store' = store
            /\ Arrived(r, "credentials", body,
                 [pc |-> "done",
                  trace |-> <<Respond(400, "All credentials are required.")>>])
     ELSE IF ~readable
       THEN /\ store' = store
            /\ Arrived(r, "credentials", body,
                 [pc |-> "done",
                  trace |-> <<Did("readDB", FALSE),
                              LogLine("Error storing credentials:", "ENOENT",
                                      <<>>),
                              Respond(500, "Failed to store credentials")>>])
     ELSE /\ store' = Append(ReadDB, PlainRow(body, id))
          /\ Arrived(r, "credentials", body,
               [pc |-> "done",
                row |-> PlainRow(body, id),
                trace |-> <<Did("readDB", TRUE),
                            Did("writeDB", PlainRow(body, id)),
                            Respond(200, "")>>])
  /\ CipherKept
  /\ UNCHANGED variant

\* GET /api/credentials/:ownerUserId of the two services with Supabase, up
\* to await supabase...select
CredentialsQuery(r, owner) ==
  /\ variant \in {"encrypted", "plain"}
  /\ Serving(r, "idle", "idle")
  /\ Arrived(r, "query", owner,
       [pc |-> "select", trace |-> <<Did("select", owner)>>])
  /\ CipherKept
  /\ UNCHANGED <<variant, store>>

\* the select has come back, with the rows or with an error
CredentialsQueried(r, ok) ==
  /\ Serving(r, "query", "select")
  /\ Resumed(r,
       [pc |-> "done",
        trace |-> IF ok
          THEN Append(Request(r).trace, Respond(200, ""))
          ELSE Request(r).trace
                 \o <<LogLine("Supabase select error:", "store error", <<>>),
                      Respond(500,
                        "Failed to fetch credentials from Supabase")>>])
  /\ CipherKept
  /\ UNCHANGED <<variant, store>>

\* the rows .eq('id', accountId) selects
Matching(id) == {i \in DOMAIN store : store[i].id = id}

\* what the select of the tweet handler can come back with: an error, no
\* row, or the row
SelectReplies(id) ==
  {"error"} \cup (IF Matching(id) = {} THEN {"none"} ELSE {"row"})

\* decrypt(account.twitter_api_key), decrypt(account.twitter_api_secret),
\* decrypt(account.twitter_access_token),
\* decrypt(account.twitter_access_secret)
DecryptAll(key, account) ==
  [f \in DOMAIN Columns |-> Decrypt(key, account[Columns[f]])]

\* the rows the model's requests can have stored, without their ids, and
\* the four decrypt calls on each of them under each key
Rows ==
  {NewRow(q[2], [f \in DOMAIN SecretFields |->
                   Encrypted[q[1]][q[2]][q[3]][f].val]) :
     q \in {q \in LoadedKeys \X AllBodies \X AllIvDraws :
             ~BodyIncomplete(q[2])}}

WithoutId(row) == [c \in DOMAIN row \ {"id"} |-> row[c]]

Decrypted4 ==
  [key \in LoadedKeys |-> [row \in Rows |-> DecryptAll(key, row)]]

ClientSwapped(values) ==
  [appKey |-> values[2], appSecret |-> values[1],
   accessToken |-> values[3], accessSecret |-> values[4]]

\* new TwitterApi({ appKey, appSecret, accessToken, accessSecret })
Client(values) ==
  [appKey |-> values[1], appSecret |-> values[2],
   accessToken |-> values[3], accessSecret |-> values[4]]

TweetFailureIgnored(req, message) ==
  [pc |-> "tweet",
   trace |-> Append(req.trace,
               Did("tweet", [text |-> <<>>, media_ids |-> <<>>]))]

\* the catch of the tweet handler
TweetFailed(req, message) ==
  [pc |-> "done",
   trace |-> req.trace
     \o <<LogLine("Error posting tweet:", message, <<>>),
          Respond(500, "Failed to post tweet")>>]

TweetNotFoundIgnored(req) ==
  [pc |-> "tweet",
   trace |-> Append(req.trace,
               Did("tweet", [text |-> req.input.text.val,
                             media_ids |-> <<>>]))]

\* return res.status(404).json({ error: 'Bot credentials not found' })
TweetNotFound(req) ==
  [pc |-> "done",
   trace |-> Append(req.trace, Respond(404, "Bot credentials not found"))]

\* rwClient.v2.tweet(text, { media: { media_ids } }) has been called
TweetCalled(req) ==
  [pc |-> "tweet",
   trace |-> Append(req.trace,
               Did("tweet", [text |-> req.input.text.val,
                             media_ids |-> req.mediaIds]))]

AfterImagesNoReturn(req) ==
  IF req.input.video > 0
    THEN [pc |-> "video",
          trace |-> req.trace
            \o (IF Len(req.mediaIds) > 0
                  THEN <<Respond(400,
                     "Cannot upload both images and videos in a single tweet.")>>
                  ELSE <<>>)
            \o <<LogLine("Uploading video:", "path", <<>>),
                 Did("uploadMedia", VideoFile)>>]
    ELSE TweetCalled(req)

AfterImagesMixing(req) ==
  IF req.input.video > 0
    THEN [pc |-> "video",
          trace |-> req.trace
            \o <<LogLine("Uploading video:", "path", <<>>),
                 Did("uploadMedia", VideoFile)>>]
    ELSE TweetCalled(req)

\* the handler from 'if (videoFile && videoFile.length > 0)' to its next
\* await or response
AfterImages(req) ==
  IF req.input.video > 0
    THEN IF Len(req.mediaIds) > 0
           THEN [pc |-> "done",
                 trace |-> Append(req.trace,
                   Respond(400,
                     "Cannot upload both images and videos in a single tweet."))]
           ELSE [pc |-> "video",
                 trace |-> req.trace
                   \o <<LogLine("Uploading video:", "path", <<>>),
                        Did("uploadMedia", VideoFile)>>]
    ELSE TweetCalled(req)

\* the handler from 'if (imageFiles && imageFiles.length > 0)' to its next
\* await or response
AfterClient(req) ==
  IF req.input.images > 0
    THEN [pc |-> "image",
          trace |-> Append(req.trace, Did("uploadMedia", ImageFile(1)))]
    ELSE AfterImages(req)

\* POST /api/tweet/:accountId of src/index.js, after multer has written the
\* files of the form, up to await supabase...select
TweetBegin(r, in) ==
  /\ variant = "encrypted"
  /\ Serving(r, "idle", "idle")
  /\ Arrived(r, "tweet", in,
       IF ~in.multipart
         THEN \* req.files['images'] throws a TypeError
              TweetFailed(Idle, "Cannot read properties of undefined")
       ELSE IF Falsy(in.text)
         THEN [pc |-> "done",
               files |-> UploadedFiles(in),
               trace |-> <<Respond(400, "Tweet text is required")>>]
         ELSE [pc |-> "select",
               files |-> UploadedFiles(in),
               trace |-> <<Did("select", in.accountId)>>])
  /\ CipherKept
  /\ UNCHANGED <<variant, store>>

\* the select has come back: the handler decrypts the row, builds the client
\* and goes on to its next await or response
TweetSelected(r, reply) ==
  /\ Serving(r, "tweet", "select")
  /\ reply \in SelectReplies(Request(r).input.accountId)
  /\ LET req == Request(r)
     IN Resumed(r,
          IF reply = "error"
            THEN TweetNotFound(
                   [req EXCEPT !.trace =
                      Append(@, LogLine("Supabase select error:",
                                        "store error", <<>>))])
          ELSE IF reply = "none"
            THEN TweetNotFound(req)
          ELSE
            LET account == store[CHOOSE i \in Matching(req.input.accountId) :
                                   TRUE]
                results == Decrypted4[ENCRYPTION_KEY.val][WithoutId(account)]
                failed  == FirstFailure(results)
                called  == req.trace \o CipherCalls("decrypt", results)
                client  == Client([f \in DOMAIN results |-> results[f].val])
            IN IF failed # 0
                 THEN TweetFailed([req EXCEPT !.trace = called],
                                  results[failed].err)
                 ELSE LET built == [req EXCEPT
                                      !.client = client,
                                      !.trace = Append(called,
                                                  Did("TwitterApi", client))]
                      IN AfterClient(built) @@ built)
  /\ CipherKept
  /\ UNCHANGED <<variant, store>>

\* rwClient.v1.uploadMedia(file.path) of the image loop has come back: with
\* a media id, and the handler deletes the file and goes on, or with an error
ImageUploaded(r, ok) ==
  /\ Serving(r, "tweet", "image")
  /\ LET req   == Request(r)
         n     == Len(req.mediaIds) + 1
         taken == [req EXCEPT
                     !.mediaIds = Append(@, ImageFile(n)),
                     !.files = @ \ {ImageFile(n)},
                     !.trace = Append(@, Did("unlinkSync", ImageFile(n)))]
     IN Resumed(r,
          IF ~ok
            THEN TweetFailed(req, "upload failed")
          ELSE IF n < req.input.images
            THEN [pc |-> "image",
                  trace |-> Append(taken.trace,
                              Did("uploadMedia", ImageFile(n + 1)))] @@ taken
          ELSE AfterImages(taken) @@ taken)
  /\ CipherKept
  /\ UNCHANGED <<variant, store>>

\* rwClient.v1.uploadMedia(videoFile[0].path, ..) has come back
VideoUploaded(r, ok) ==
  /\ Serving(r, "tweet", "video")
  /\ LET req   == Request(r)
         taken == [req EXCEPT
                     !.mediaIds = Append(@, VideoFile),
                     !.files = @ \ {VideoFile},
                     !.trace = Append(@, Did("unlinkSync", VideoFile))]
     IN Resumed(r,
          IF ~ok
            THEN TweetFailed(req, "upload failed")
            ELSE TweetCalled(taken) @@ taken)
  /\ CipherKept
  /\ UNCHANGED <<variant, store>>

\* rwClient.v2.tweet has come back
Tweeted(r, ok) ==
  /\ Serving(r, "tweet", "tweet")
  /\ LET req == Request(r)
     IN Resumed(r,
          IF ~ok
            THEN TweetFailed(req, "tweet failed")
            ELSE [pc |-> "done",
                  trace |-> req.trace
                    \o <<LogLine("Tweet successfully posted:", "tweet",
                                 <<req.input.text.val>>),
                         Respond(200, "")>>])
  /\ CipherKept
  /\ UNCHANGED <<variant, store>>

\* the response has gone out and the connection takes the next request
Finished(r) ==
  /\ Request(r).pc = "done"
  /\ requests' = [requests EXCEPT ![r] = Idle]
  /\ CipherKept
  /\ UNCHANGED <<variant, store>>

\* app.listen of the two services that do not load the cipher
Listen ==
  /\ phase = "down"
  /\ variant \in {"plain", "json"}
  /\ phase' = "up"
  /\ UNCHANGED <<ENCRYPTION_KEY, issued, last, service>>

\* a deployment of one of the services, with an empty store
ServiceInit ==
  /\ phase = "down"
  /\ ENCRYPTION_KEY = Unset
  /\ issued = {}
  /\ last = NoCall
  /\ variant \in Variants
  /\ store = <<>>
  /\ requests = [r \in Connections |-> Idle]

ServiceNext ==
  \/ \E e \in EnvValues : Load(e)
  \/ Listen
  \/ Exit
  \/ \E r \in Connections :
       \/ \E body \in CredentialBodies(r), ivs \in IvDraws(r) :
            CredentialsEncrypted(r, body, ivs)
       \/ \E body \in CredentialBodies(r), id \in Range(Ids) :
            CredentialsPlain(r, body, id)
       \/ \E ok \in BOOLEAN : CredentialsInserted(r, ok)
       \/ \E body \in CredentialBodies(r), id \in Range(Ids),
             readable \in BOOLEAN :
            CredentialsJson(r, body, id, readable)
       \/ \E owner \in {BodyA.ownerUserId.val} : CredentialsQuery(r, owner)
       \/ \E ok \in BOOLEAN : CredentialsQueried(r, ok)
       \/ \E in \in TweetRequests(r) : TweetBegin(r, in)
       \/ \E reply \in {"error", "none", "row"} : TweetSelected(r, reply)
       \/ \E ok \in BOOLEAN : ImageUploaded(r, ok)
       \/ \E ok \in BOOLEAN : VideoUploaded(r, ok)
       \/ \E ok \in BOOLEAN : Tweeted(r, ok)
       \/ Finished(r)

ServiceSpec == ServiceInit /\ [][ServiceNext]_vars

\* ------------------------------------------------------------------------
\* Properties of the services
\* ------------------------------------------------------------------------

\* the handler of connection r has sent its response (and r is not free yet)
Answered(r, op) == Request(r).op = op /\ Request(r).pc = "done"

\* what the handler of connection r did, of one kind
Steps(r, what) ==
  {i \in DOMAIN Request(r).trace : Request(r).trace[i].do = what}

Responses(r) == [i \in Steps(r, "respond") |-> Request(r).trace[i].arg]

\* the status of the one response of a handler that has answered
Status(r) == Request(r).trace[CHOOSE i \in Steps(r, "respond") : TRUE].arg.status

\* the secret columns of the rows of the store
StoredSecrets ==
  {store[i][Columns[f]] : i \in DOMAIN store, f \in DOMAIN Columns}

\* C11, as stated: in every service of the repository the rows that POST
\* /api/credentials writes hold the four secrets as tokens of encrypt only:
\* no column of a stored row is a secret as it was submitted.
EncryptedAtRest ==
  \A v \in StoredSecrets : v \notin Secrets /\ Colons(v) # {}

\* the row a tweet request asks for, and its four columns as decrypt
\* returns them under the loaded key
Account(r) ==
  store[CHOOSE i \in DOMAIN store : store[i].id = Request(r).input.accountId]

AccountDecrypted(r) ==
  [f \in DOMAIN Columns |->
     Decrypted4[ENCRYPTION_KEY.val][WithoutId(Account(r))][f]]

\* C12: the tweet handler builds the Twitter client only after its four
\* decrypt calls on the fetched row, each made once and in order, have all
\* returned, and gives the client each decrypted value in its own field
\* (api key -> appKey, api secret -> appSecret, access token -> accessToken,
\* access secret -> accessSecret).
ClientAfterDecrypt ==
  \A r \in Connections : \A i \in Steps(r, "TwitterApi") :
    LET tr == Request(r).trace
    IN /\ Steps(r, "decrypt") = (i - Len(SecretFields))..(i - 1)
       /\ \A f \in DOMAIN SecretFields :
            /\ tr[i - Len(SecretFields) + f - 1].arg =
                 [field |-> SecretFields[f], ok |-> TRUE]
            /\ AccountDecrypted(r)[f].ok
            /\ tr[i].arg[ClientFields[f]] = AccountDecrypted(r)[f].val
       /\ Steps(r, "TwitterApi") = {i}

\* a client was built from the row of the first client's account
ClientAfterDecryptWitness ==
  \E r \in Connections :
    /\ Steps(r, "TwitterApi") # {}
    /\ Request(r).client = Client(<<BodyA.apiKey.val, BodyA.apiSecret.val,
                                    BodyA.accessToken.val,
                                    BodyA.accessSecret.val>>)

\* the strings a handler of src/index.js holds in plaintext: the secrets
\* submitted and the values decrypt returned
Plaintext(r) ==
  Secrets
    \cup (IF Steps(r, "TwitterApi") = {}
            THEN {}
            ELSE {Request(r).client[ClientFields[f]] :
                    f \in DOMAIN ClientFields})

\* C13: the handlers of src/index.js never write a secret, as submitted or
\* as decrypted, to the store, to a log line or to a file: the rows they
\* insert hold none, the lines they print hold none, and they write no file.
NoPlaintextWritten ==
  (variant = "encrypted") =>
    /\ StoredSecrets \cap Secrets = {}
    /\ \A r \in Connections :
         LET tr == Request(r).trace
         IN /\ \A i \in Steps(r, "insert") : \A f \in DOMAIN Columns :
                 tr[i].arg[Columns[f]] \notin Plaintext(r)
            /\ \A i \in Steps(r, "log") :
                 Range(tr[i].arg.holds) \cap Plaintext(r) = {}
            /\ Steps(r, "writeDB") = {}

\* both handlers have run: a row is stored, and a tweet request has
\* decrypted it, built the client, tweeted and printed the tweet
NoPlaintextWrittenWitness ==
  /\ variant = "encrypted"
  /\ store # <<>>
  /\ \E r \in Connections :
       /\ Answered(r, "tweet")
       /\ Status(r) = 200
       /\ Request(r).client.appKey \in Secrets

\* C14: when a decrypt call on the fetched row throws, the tweet handler
\* answers 500 'Failed to post tweet', calls no decrypt again, builds no
\* client and makes no call to Twitter.
DecryptFailureReported ==
  \A r \in Connections : \A i \in Steps(r, "decrypt") :
    LET tr == Request(r).trace
    IN ~tr[i].arg.ok =>
         /\ Answered(r, "tweet")
         /\ Len(tr) = i + 2
         /\ tr[i + 1].do = "log"
         /\ tr[i + 2] = Respond(500, "Failed to post tweet")
         /\ \A j \in Steps(r, "decrypt") \ {i} :
              j < i /\ tr[j].arg.field # tr[i].arg.field
         /\ Steps(r, "TwitterApi") = {}
         /\ Steps(r, "uploadMedia") = {}
         /\ Steps(r, "tweet") = {}

\* a row stored under one key was fetched under another and decrypt threw
\* on its padding
DecryptFailureReportedWitness ==
  \E r \in Connections :
    /\ Answered(r, "tweet")
    /\ \E i \in Steps(r, "decrypt") : ~Request(r).trace[i].arg.ok
    /\ \E i \in Steps(r, "log") :
         Request(r).trace[i].arg.message = "bad decrypt"

\* the rows POST /api/credentials of src/index.js makes of a body under a
\* key, whatever the IVs drawn
RowsOf ==
  [key \in LoadedKeys |->
     [body \in {BodyA, BodyB} |->
        {NewRow(body, [f \in DOMAIN SecretFields |->
                         Encrypted[key][body][ivs][f].val]) :
           ivs \in AllIvDraws}]]

SecretsOf(body) ==
  [appKey |-> body.apiKey.val, appSecret |-> body.apiSecret.val,
   accessToken |-> body.accessToken.val,
   accessSecret |-> body.accessSecret.val]

\* C15: a tweet request for the id of an account that POST /api/credentials
\* stored from the secrets (k, s, t, a), under the key that is loaded now,
\* builds the Twitter client with exactly (k, s, t, a), whatever other
\* requests came in between.
StoreThenUse ==
  \A r \in Connections : \A body \in {BodyA, BodyB} :
    (/\ Steps(r, "decrypt") # {}
     /\ WithoutId(Account(r)) \in RowsOf[ENCRYPTION_KEY.val][body])
      => /\ Steps(r, "TwitterApi") # {}
         /\ \A i \in Steps(r, "TwitterApi") :
              Request(r).trace[i].arg = SecretsOf(body)

\* the second account, stored after the first client's account, gives the
\* client the second client's secrets
StoreThenUseWitness ==
  \E r \in Connections :
    /\ Steps(r, "TwitterApi") # {}
    /\ Request(r).input.accountId = Ids[2]
    /\ store[1].owner_user_id = BodyA.ownerUserId.val
    /\ Request(r).client = SecretsOf(BodyB)

\* C16: no handler updates or deletes a row: every step leaves the rows
\* there are in place and unchanged (the store only grows).
StoreOnlyGrows ==
  [][/\ Len(store') >= Len(store)
     /\ \A i \in DOMAIN store : store'[i] = store[i]]_vars

\* two rows have been stored, the second while the first was there, and a
\* tweet request was served from the store
StoreOnlyGrowsWitness ==
  /\ Len(store) = Len(Ids)
  /\ \E r \in Connections : Answered(r, "tweet") /\ Steps(r, "decrypt") # {}

\* C17: the key is read-only after startup: while the process is up no
\* step (no request handler, with its encrypt and decrypt calls) changes
\* ENCRYPTION_KEY.
KeyReadOnly ==
  [][(phase = "up" /\ phase' = "up") => ENCRYPTION_KEY' = ENCRYPTION_KEY]_vars

\* handlers have called encrypt and decrypt under the key loaded at startup
KeyReadOnlyWitness ==
  /\ phase = "up"
  /\ ENCRYPTION_KEY = Env(KeyA)
  /\ \E r \in Connections : Steps(r, "encrypt") # {}
  /\ \E r \in Connections : Steps(r, "decrypt") # {}

MediaLimit ==
  \A r \in Connections : \A i \in Steps(r, "tweet") :
    LET ids    == Request(r).trace[i].arg.media_ids
        images == {j \in DOMAIN ids : ids[j].field = "images"}
        videos == {j \in DOMAIN ids : ids[j].field = "video"}
    IN /\ Len(ids) <= MaxImages
       /\ Cardinality(videos) <= MaxVideos
       /\ images = {} \/ videos = {}

\* a tweet was posted with four images, and one with a video
MediaLimitWitness ==
  \E r \in Connections : \E i \in Steps(r, "tweet") :
    /\ Len(Request(r).trace[i].arg.media_ids) = MaxImages
    /\ Answered(r, "tweet")
    /\ Status(r) = 200

\* C20, as stated: a tweet request whose text is missing or empty is
\* answered 400 'Tweet text is required' and its handler does nothing else:
\* no select, no decrypt, no client, no upload, no tweet.
TextRequiredFirst ==
  \A r \in Connections :
    (/\ Request(r).op = "tweet"
     /\ (~Request(r).input.text.set \/ Request(r).input.text.val = <<>>))
      => /\ Request(r).pc = "done"
         /\ Request(r).trace = <<Respond(400, "Tweet text is required")>>

\* C21: when the select of the tweet handler comes back with an error or
\* without a row, the handler answers 404 'Bot credentials not found' and
\* calls no decrypt, builds no client, uploads nothing and posts no tweet.
NotFoundReported ==
  \A r \in Connections :
    LET tr == Request(r).trace
    IN /\ (/\ Request(r).op = "tweet"
           /\ Request(r).pc # "select"
           /\ Steps(r, "select") # {}
           /\ Steps(r, "decrypt") = {})
            => /\ Request(r).pc = "done"
               /\ tr[Len(tr)] = Respond(404, "Bot credentials not found")
               /\ Steps(r, "respond") = {Len(tr)}
               /\ Steps(r, "TwitterApi") = {}
               /\ Steps(r, "uploadMedia") = {}
               /\ Steps(r, "tweet") = {}
       /\ (/\ Request(r).op = "tweet"
           /\ Steps(r, "decrypt") # {})
            => \E i \in DOMAIN store :
                 store[i].id = Request(r).input.accountId

\* 404 for an id that has no row, and 404 for the error of a select of an
\* id that has one
NotFoundReportedWitness ==
  /\ \E r \in Connections :
       /\ Answered(r, "tweet")
       /\ Status(r) = 404
       /\ Steps(r, "log") # {}
       /\ \E i \in DOMAIN store : store[i].id = Request(r).input.accountId
  /\ \E r \in Connections :
       /\ Answered(r, "tweet")
       /\ Status(r) = 404
       /\ Steps(r, "log") = {}

\* C22: a POST /api/credentials whose body lacks one of ownerUserId, apiKey,
\* apiSecret, accessToken and accessSecret, or has it empty, is answered 400
\* 'All credentials are required.' by the step that takes it up, which
\* encrypts nothing and leaves the store as it was.
IncompleteRejected ==
  [][\A r \in Connections :
       (/\ Request(r).op = "idle"
        /\ requests'[r].op = "credentials"
        /\ \E f \in {"ownerUserId"} \cup Range(SecretFields) :
             \/ ~requests'[r].input[f].set
             \/ Len(requests'[r].input[f].val) = 0)
         => /\ requests'[r].pc = "done"
            /\ requests'[r].trace =
                 <<Respond(400, "All credentials are required.")>>
            /\ store' = store
            /\ issued' = issued]_vars

\* a body without accessSecret and a body whose apiKey is '' have been
\* rejected, the second next to a stored account
IncompleteRejectedWitness ==
  \E r \in Connections :
    /\ Answered(r, "credentials")
    /\ Request(r).input.apiKey.set
    /\ Request(r).input.apiKey.val = <<>>
    /\ Status(r) = 400
    /\ store # <<>>

\* ------------------------------------------------------------------------
\* The Discord service (src/apps/discord-api/README.md)
\* ------------------------------------------------------------------------

\* the values of SUPABASE_URL and SUPABASE_SERVICE_ROLE_KEY
SupabaseValues == {Undefined, Str(<<115>>)}

\* the values of ENCRYPTION_KEY the Discord service is started with
DiscordEnvValues == {Unset, Env(KeyShort), Env(KeyA)}

BotA == [bot_token |-> Str(<<66>>), channel_id |-> Str(<<99>>),
         user_id |-> Str(<<117>>)]

BotB == [bot_token |-> Str(<<98>>), channel_id |-> Str(<<100>>),
         user_id |-> Str(<<118>>)]

\* the bodies POST /store-discord-account receives on connection r
DiscordBodies(r) ==
  IF r = "c1"
    THEN {BotA, [BotA EXCEPT !.bot_token = Undefined]}
    ELSE {BotB}

\* the requests POST /send-message/:user_id receives on connection r
MessageRequests(r) ==
  IF r = "c1"
    THEN {[user_id |-> BotA.user_id.val, content |-> Hello],
          [user_id |-> BotA.user_id.val, content |-> Undefined]}
    ELSE {[user_id |-> BotB.user_id.val, content |-> Hello],
          [user_id |-> <<119>>, content |-> Hello]}

\* what CryptoJS.AES.decrypt(...).toString(CryptoJS.enc.Utf8) comes to under
\* a passphrase that is not the one the token was made with: the bytes are
\* not the plaintext, and either are no UTF-8 (a throw) or come out as ''
WrongKeyOutcomes == {"Malformed UTF-8 data", ""}

\* CryptoJS.AES.encrypt(data, ENCRYPTION_KEY).toString(): a string key of any
\* length is a passphrase, from which key and IV are derived; with undefined
\* for a key the cipher reads key.words and throws
CryptoJSEncrypt(data, key) ==
  IF ~key.set
    THEN [ok |-> FALSE, err |-> "TypeError", val |-> <<>>]
    ELSE [ok |-> TRUE, err |-> "",
          val |-> [salted |-> data, passphrase |-> key.val]]

\* CryptoJS.AES.decrypt(cipherText, ENCRYPTION_KEY).toString(CryptoJS.enc.Utf8)
CryptoJSDecrypt(cipherText, key, wrong) ==
  IF ~key.set
    THEN [ok |-> FALSE, err |-> "TypeError", val |-> <<>>]
  ELSE IF key.val = cipherText.passphrase
    THEN [ok |-> TRUE, err |-> "", val |-> cipherText.salted]
  ELSE IF wrong = ""
    THEN [ok |-> TRUE, err |-> "", val |-> <<>>]
  ELSE [ok |-> FALSE, err |-> wrong, val |-> <<>>]

\* the module's top level, down to app.listen: the process ends when one of
\* the two Supabase variables is missing and takes ENCRYPTION_KEY as it is
DiscordStart(supabaseUrl, supabaseKey, e) ==
  /\ phase = "down"
  /\ variant = "discord"
  /\ IF Falsy(supabaseUrl) \/ Falsy(supabaseKey)
       THEN /\ phase' = "failed"
            /\ UNCHANGED ENCRYPTION_KEY
       ELSE /\ phase' = "up"
            /\ ENCRYPTION_KEY' = e
  /\ UNCHANGED <<issued, last, service>>

\* POST /store-discord-account, up to await supabase...insert
DiscordStore(r, body) ==
  /\ variant = "discord"
  /\ Serving(r, "idle", "idle")
  /\ LET result == CryptoJSEncrypt(body.bot_token.val, ENCRYPTION_KEY)
         row    == [user_id |-> body.user_id.val,
                    encrypted_token |-> result.val,
                    channel_id |-> body.channel_id.val]
         called == Did("encrypt", [key |-> ENCRYPTION_KEY,
                                   data |-> body.bot_token.val])
     IN Arrived(r, "store-discord-account", body,
          IF Falsy(body.bot_token) \/ Falsy(body.channel_id)
               \/ Falsy(body.user_id)
            THEN [pc |-> "done",
                  trace |-> <<Respond(400,
                     "Missing bot_token, channel_id, or user_id")>>]
          ELSE IF ~result.ok
            THEN [pc |-> "done",
                  trace |-> <<called,
                              LogLine("Error storing bot credentials:",
                                      result.err, <<>>),
                              Respond(500,
                                "Failed to store bot credentials")>>]
          ELSE [pc |-> "insert", row |-> row,
                trace |-> <<called, Did("insert", row)>>])
  /\ CipherKept
  /\ UNCHANGED <<variant, store>>

\* the insert into discord_accounts has come back
DiscordInserted(r, ok) ==
  /\ variant = "discord"
  /\ Serving(r, "store-discord-account", "insert")
  /\ IF ok
       THEN /\ Len(store) < Len(Ids)
            /\ store' = Append(store, Request(r).row)
            /\ Resumed(r, [pc |-> "done",
                           trace |-> Append(Request(r).trace,
                                            Respond(200, ""))])
       ELSE /\ store' = store
            /\ Resumed(r,
                 [pc |-> "done",
                  trace |-> Request(r).trace
                    \o <<LogLine("Error storing bot credentials:",
                                 "store error", <<>>),
                         Respond(500, "Failed to store bot credentials")>>])
  /\ CipherKept
  /\ UNCHANGED variant

\* POST /send-message/:user_id, up to await supabase...single()
DiscordSend(r, in) ==
  /\ variant = "discord"
  /\ Serving(r, "idle", "idle")
  /\ Arrived(r, "send-message", in,
       IF Falsy(in.content)
         THEN [pc |-> "done",
               trace |-> <<Respond(400, "Message content is required")>>]
         ELSE [pc |-> "select",
               trace |-> <<Did("select", in.user_id)>>])
  /\ CipherKept
  /\ UNCHANGED <<variant, store>>

\* the select has come back (.single() reports anything but one row as an
\* error); with a row the token is decrypted and handed to axios.post
DiscordSelected(r, ok, wrong) ==
  /\ variant = "discord"
  /\ Serving(r, "send-message", "select")
  /\ LET found  == {i \in DOMAIN store :
                      store[i].user_id = Request(r).input.user_id}
         data   == store[CHOOSE i \in found : TRUE]
         result == CryptoJSDecrypt(data.encrypted_token, ENCRYPTION_KEY,
                                   wrong)
         called == Did("decrypt", [key |-> ENCRYPTION_KEY,
                                   data |-> data.encrypted_token])
     IN Resumed(r,
          IF ~ok \/ Cardinality(found) # 1
            THEN [pc |-> "done",
                  trace |-> Request(r).trace
                    \o <<LogLine("Error fetching bot credentials:",
                                 "store error", <<>>),
                         Respond(404, "Bot credentials not found")>>]
          ELSE IF ~result.ok
            THEN [pc |-> "done",
                  trace |-> Request(r).trace
                    \o <<called,
                         LogLine("Error sending message:", result.err, <<>>),
                         Respond(500, "Failed to send message")>>]
          ELSE [pc |-> "post",
                trace |-> Request(r).trace
                  \o <<called,
                       Did("axios.post",
                           [channel_id |-> data.channel_id,
                            Authorization |-> result.val,
                            content |-> Request(r).input.content.val])>>])
  /\ CipherKept
  /\ UNCHANGED <<variant, store>>

\* axios.post has come back
DiscordPosted(r, ok) ==
  /\ variant = "discord"
  /\ Serving(r, "send-message", "post")
  /\ Resumed(r,
       IF ok
         THEN [pc |-> "done",
               trace |-> Append(Request(r).trace, Respond(200, ""))]
         ELSE [pc |-> "done",
               trace |-> Request(r).trace
                 \o <<LogLine("Error sending message:", "request failed",
                              <<>>),
                      Respond(500, "Failed to send message")>>])
  /\ CipherKept
  /\ UNCHANGED <<variant, store>>

\* a deployment of the Discord service, with an empty discord_accounts
DiscordInit ==
  /\ phase = "down"
  /\ ENCRYPTION_KEY = Unset
  /\ issued = {}
  /\ last = NoCall
  /\ variant = "discord"
  /\ store = <<>>
  /\ requests = [r \in Connections |-> Idle]

DiscordNext ==
  \/ \E supabaseUrl \in SupabaseValues, supabaseKey \in SupabaseValues,
        e \in DiscordEnvValues :
       DiscordStart(supabaseUrl, supabaseKey, e)
  \/ Exit
  \/ \E r \in Connections :
       \/ \E body \in DiscordBodies(r) : DiscordStore(r, body)
       \/ \E ok \in BOOLEAN : DiscordInserted(r, ok)
       \/ \E in \in MessageRequests(r) : DiscordSend(r, in)
       \/ \E ok \in BOOLEAN, wrong \in WrongKeyOutcomes :
            DiscordSelected(r, ok, wrong)
       \/ \E ok \in BOOLEAN : DiscordPosted(r, ok)
       \/ Finished(r)

DiscordSpec == DiscordInit /\ [][DiscordNext]_vars

\* C23: the Discord service does not run without an ENCRYPTION_KEY of 32
\* bytes: while it is up the key is set and has that size, and every call of
\* encrypt and decrypt a request makes is made under such a key.
DiscordKeyChecked ==
  LET Valid(k) == k.set /\ Len(Utf8Encode(k.val)) = AesKeyBytes
  IN (variant = "discord") =>
       /\ (phase = "up") => Valid(ENCRYPTION_KEY)
       /\ \A r \in Connections :
            \A i \in Steps(r, "encrypt") \cup Steps(r, "decrypt") :
              Valid(Request(r).trace[i].arg.key)

\* C24: the tweet handler sends exactly one response on every path: a
\* request that has been answered has one response, which is the last thing
\* the handler did; a request that has not been answered is waiting for the
\* store or for Twitter and has sent nothing; the handler is finished only
\* when it has answered.
OneResponse ==
  \A r \in Connections :
    LET tr == Request(r).trace
    IN (Request(r).op = "tweet") =>
         /\ Request(r).pc \in {"select", "image", "video", "tweet", "done"}
         /\ Cardinality(Steps(r, "respond")) <= 1
         /\ (Request(r).pc = "done") <=> (Steps(r, "respond") # {})
         /\ (Request(r).pc = "done") => (tr[Len(tr)].do = "respond")

\* one request answered 200 after a tweet, the other answered 400 after its
\* image had been uploaded
OneResponseWitness ==
  /\ \E r \in Connections :
       /\ Answered(r, "tweet")
       /\ Status(r) = 200
       /\ Steps(r, "tweet") # {}
  /\ \E r \in Connections :
       /\ Answered(r, "tweet")
       /\ Status(r) = 400
       /\ Steps(r, "uploadMedia") # {}

\* C25: a tweet request with images and a video is rejected with 400 'Cannot
\* upload both images and videos in a single tweet.' without an effect on
\* Twitter: when the rejection is sent, no media has been uploaded and no
\* tweet has been posted.
MixedRejectedUntouched ==
  \A r \in Connections :
    (/\ Answered(r, "tweet")
     /\ \E i \in Steps(r, "respond") :
          Request(r).trace[i].arg.error =
            "Cannot upload both images and videos in a single tweet.")
      => /\ Status(r) = 400
         /\ Steps(r, "uploadMedia") = {}
         /\ Steps(r, "tweet") = {}

\* C26: temporary upload files do not leak: when the tweet handler has
\* answered, with whatever status, none of the files the upload middleware
\* wrote for the request is left, and each unlinkSync of a file comes after
\* the successful upload of that file.
NoTempFileLeft ==
  \A r \in Connections :
    /\ Answered(r, "tweet") => Request(r).files = {}
    /\ (Request(r).op = "tweet") =>
         \A i \in Steps(r, "unlinkSync") :
           /\ i > 1
           /\ Request(r).trace[i - 1] =
                Did("uploadMedia", Request(r).trace[i].arg)

====
